---- MODULE Spec2Model ----
(***************************************************************************)
(* Model of rtconfig/manage.py: the per-config state object                *)
(* (ConfigManager), the module-level registry maps (connected,             *)
(* connected_message, config_store_state) and the dispatcher               *)
(* (notify_changed) that runs as a notification handler of                 *)
(* ConfigManager.update_config.                                            *)
(* Message objects live in `heap`: the objects built and the dict objects  *)
(* their data and context fields refer to.                                 *)
(*                                                                         *)
(* Scheduling is cooperative (asyncio): a coroutine runs without           *)
(* interleaving until it awaits client.send.  `running` holds the task     *)
(* that currently owns the interpreter (0 = the event loop is free).       *)
(***************************************************************************)
EXTENDS Integers, FiniteSets, Sequences, TLC

\* ---------------------------------------------------------------- bounds
MaxMgr == 2
MaxVisits == 3
MaxRegCalls == 3
MaxSets == 1
MaxInits == 1
MaxSubscribes == 1
MaxChurn == 2

Names == {"app", "db"}
Conns == {"ws1", "ws2"}
\* One task per call of update_config.
Tasks == {1, 2}
\* The documents {} and {"a": 1}.
Docs == {0, 1}
Mgrs == 1 .. MaxMgr
Handlers == {"notify_changed", "other"}

\* The document {} read by the constructor before the first refresh.
EmptyDoc == 0

NameIdx == [n \in Names |-> IF n = "app" THEN 1 ELSE 2]

VARIABLES connected, connected_message, config_store_state,
          store, mgrs, notify_handler, running, tasks, last, used, heap

vars == <<connected, connected_message, config_store_state,
          store, mgrs, notify_handler, running, tasks, last, used, heap>>

\* ------------------------------------------------------- dict primitives
Put(f, k, v) == [x \in (DOMAIN f) \cup {k} |-> IF x = k THEN v ELSE f[x]]

Del(f, k) == [x \in (DOMAIN f) \ {k} |-> f[x]]

EmptyDict == [x \in {} |-> 0]

\* ------------------------------------------------------------ fingerprint
\* rtconfig.utils.to_hash: a deterministic digest of the document.
to_hash(d) == (d * 7 + 3) % 11

Hashes == {to_hash(d) : d \in Docs}

\* Message as stored by the registry: the fields the dispatcher reads.
Messages == [config_name : Names, hash_code : Hashes]

\* ConfigManager.hash_code property
hash_code(m) == to_hash(mgrs[m].source_data)

MT_NO_CHANGE == "nochange"

MT_CHANGED == "changed"

\* Message.to_string: the JSON object of the compact form, which leaves out
\* request, context and lut.
to_string(message) ==
    [message_type |-> message.message_type,
     config_name |-> message.config_name,
     hash_code |-> message.hash_code,
     data |-> message.data]

\* variant: the message is built with the other message type
config_message_NoChange(m, request) ==
    to_string([request |-> request, message_type |-> MT_NO_CHANGE,
               config_name |-> mgrs[m].config_name,
               hash_code |-> hash_code(m),
               data |-> mgrs[m].source_data])

\* ConfigManager.config_message: Message(request, MT_CHANGED, config_name,
\* hash_code, source_data).to_string()
config_message(m, request) ==
    to_string([request |-> request, message_type |-> MT_CHANGED,
               config_name |-> mgrs[m].config_name,
               hash_code |-> hash_code(m),
               data |-> mgrs[m].source_data])

\* No payload is being sent.
NoPayload ==
    [message_type |-> "-", config_name |-> "-", hash_code |-> -1, data |-> -1]

\* ------------------------------------------------------- registry calls
get_config_store(css, config_name) ==
    IF config_name \in DOMAIN css
    THEN [value |-> css[config_name], raised |-> "none"]
    ELSE [value |-> 0, raised |-> "ProjectNoFoundException"]

\* variant: the message is stored before the subscriber set is looked up
register_stores_first(cn, cm, message, ws) ==
    IF message.config_name \notin DOMAIN cn
    THEN [connected |-> cn, connected_message |-> Put(cm, ws, message),
          raised |-> "ProjectNoFoundException"]
    ELSE [connected |-> [cn EXCEPT ![message.config_name] = @ \cup {ws}],
          connected_message |-> Put(cm, ws, message),
          raised |-> "none"]

register_connected_ws(cn, cm, message, ws) ==
    IF message.config_name \notin DOMAIN cn
    THEN [connected |-> cn, connected_message |-> cm,
          raised |-> "ProjectNoFoundException"]
    ELSE [connected |->
              IF ws \notin cn[message.config_name]
              THEN [cn EXCEPT ![message.config_name] = @ \cup {ws}]
              ELSE cn,
          connected_message |-> Put(cm, ws, message),
          raised |-> "none"]

\* variant: the KeyError of the set removal is not caught
remove_unguarded(cn, cm, config_name, ws) ==
    IF config_name \in DOMAIN cn /\ ws \in cn[config_name]
    THEN [connected |-> [cn EXCEPT ![config_name] = @ \ {ws}],
          connected_message |-> IF ws \in DOMAIN cm THEN Del(cm, ws) ELSE cm,
          raised |-> "none"]
    ELSE [connected |-> cn, connected_message |-> cm, raised |-> "KeyError"]

\* variant: the stored message is left behind
remove_keeps_message(cn, cm, config_name, ws) ==
    [connected |->
         IF config_name \in DOMAIN cn /\ ws \in cn[config_name]
         THEN [cn EXCEPT ![config_name] = @ \ {ws}]
         ELSE cn,
     connected_message |-> cm,
     raised |-> "none"]

remove_connected_ws(cn, cm, config_name, ws) ==
    [connected |->
         IF config_name \in DOMAIN cn /\ ws \in cn[config_name]
         THEN [cn EXCEPT ![config_name] = @ \ {ws}]
         ELSE cn,
     connected_message |-> IF ws \in DOMAIN cm THEN Del(cm, ws) ELSE cm,
     raised |-> "none"]

\* --------------------------------------------------------------- tasks
IdleTask ==
    [pc |-> "idle", mgr |-> 0, old |-> 0, err |-> "none",
     hleft |-> {}, hsize |-> 0, calls |-> {},
     live |-> FALSE, isize |-> 0, snap |-> {}, todo |-> {},
     dirty |-> FALSE, touched |-> FALSE, redoc |-> FALSE, cur |-> "-",
     fp0 |-> -1, out |-> NoPayload,
     evald |-> {}, visits |-> 0,
     sent |-> [c \in Conns |-> 0],
     evfp |-> [c \in Conns |-> -1]]

NameOf(t) == mgrs[tasks[t].mgr].config_name

\* A registry call ran while passes were suspended at a send: note in each
\* such pass whether the set it walks was mutated (dirty) and whether either
\* registry map changed since the pass started (touched).
Mark(cnNew, cmNew) ==
    [t \in Tasks |->
        IF tasks[t].pc = "send"
        THEN [tasks[t] EXCEPT
                !.dirty = @ \/ cnNew[NameOf(t)] # connected[NameOf(t)],
                !.touched = @ \/ cnNew # connected
                              \/ cmNew # connected_message]
        ELSE tasks[t]]

\* Call budgets: each kind of external call is counted up to its bound.
Limit == [reg |-> MaxRegCalls, set |-> MaxSets, init |-> MaxInits]

Budget(k) == used[k] < Limit[k] /\ used' = [used EXCEPT ![k] = @ + 1]

\* ------------------------------------------------------------- Init
Alloc(found, base, n) ==
    base + Cardinality({x \in found : NameIdx[x] <= NameIdx[n]})

\* The state after the module is imported: the three maps are created empty
\* and init_config_store() has run once over the store directory.
Init ==
    \E found \in SUBSET Names :
    \E st \in [found -> {EmptyDoc}] :
        /\ store = st
        /\ mgrs = [i \in 1 .. Cardinality(found) |->
                     LET n == CHOOSE x \in found : Alloc(found, 0, x) = i
                     IN [config_name |-> n, source_data |-> st[n]]]
        /\ config_store_state = [n \in found |-> Alloc(found, 0, n)]
        /\ connected = [n \in found |-> {}]
        /\ connected_message = EmptyDict
        /\ notify_handler = {"notify_changed"}
        /\ running = 0
        /\ tasks = [t \in Tasks |-> IdleTask]
        /\ last = [op |-> "import", name |-> "-", conn |-> "-",
                   outcome |-> "none", flag |-> FALSE]
        /\ used = [reg |-> 0, set |-> 0, init |-> 0]
        /\ heap = [dicts |-> <<EmptyDict, EmptyDict>>, msgs |-> <<>>]

\* -------------------------------------------------- registry actions
Register(message, ws) ==
    /\ running = 0
    /\ LET r == register_connected_ws(connected, connected_message,
                                      message, ws)
       IN /\ connected' = r.connected
          /\ connected_message' = r.connected_message
          /\ tasks' = Mark(r.connected, r.connected_message)
    /\ UNCHANGED <<config_store_state, store, mgrs, notify_handler, running>>

Remove(config_name, ws) ==
    /\ running = 0
    /\ LET r == remove_connected_ws(connected, connected_message,
                                    config_name, ws)
       IN /\ connected' = r.connected
          /\ connected_message' = r.connected_message
          /\ tasks' = Mark(r.connected, r.connected_message)
    /\ UNCHANGED <<config_store_state, store, mgrs, notify_handler, running>>

Lookup(config_name) ==
    /\ running = 0
    /\ UNCHANGED <<connected, connected_message, config_store_state,
                   store, mgrs, notify_handler, running, tasks>>

\* The record of the latest registry call: what was called and how it ended.
\* flag of a register: the connection was already in the set;
\* flag of a remove: it came right after a successful register of the same
\* connection under the same name.
LogRegister(message, ws) ==
    last' = [op |-> "register", name |-> message.config_name, conn |-> ws,
             outcome |-> register_connected_ws(connected, connected_message,
                                               message, ws).raised,
             flag |-> /\ message.config_name \in DOMAIN connected
                      /\ ws \in connected[message.config_name]]

LogRemove(config_name, ws) ==
    last' = [op |-> "remove", name |-> config_name, conn |-> ws,
             outcome |-> remove_connected_ws(connected, connected_message,
                                             config_name, ws).raised,
             flag |-> /\ last.op = "register"
                      /\ last.outcome = "none"
                      /\ last.name = config_name
                      /\ last.conn = ws]

LogLookup(config_name) ==
    last' = [op |-> "lookup", name |-> config_name, conn |-> "-",
             outcome |-> get_config_store(config_store_state,
                                          config_name).raised,
             flag |-> FALSE]

LogInit(found, loaded) ==
    last' = [op |-> "init", name |-> "-", conn |-> "-",
             outcome |-> IF loaded = found THEN "none" ELSE "BackendError",
             flag |-> FALSE]

\* ------------------------------------------------------- storage backend
\* store_backend.read(): the persisted document, {} when nothing is stored.
BackendRead(st, config_name) ==
    IF config_name \in DOMAIN st THEN st[config_name] ELSE EmptyDoc

\* store_backend.write(document)
BackendWrite(st, config_name, d) == Put(st, config_name, d)

\* ------------------------------------------------------ ConfigManager
\* ConfigManager(config_name): _source_data = {} and then refresh().
NewManager(config_name) ==
    /\ running = 0
    /\ Len(mgrs) < MaxMgr
    /\ mgrs' = Append(mgrs, [config_name |-> config_name,
                             source_data |-> BackendRead(store, config_name)])
    /\ UNCHANGED <<connected, connected_message, config_store_state,
                   store, notify_handler, running, tasks>>

\* The document of manager m is replaced while the pass of task u on m is
\* suspended: note it in that pass.
Redoc(u, m) ==
    IF tasks[u].mgr = m /\ tasks[u].pc = "send"
    THEN [tasks[u] EXCEPT !.redoc = TRUE]
    ELSE tasks[u]

\* source_data setter
source_data_setter(m, value) ==
    /\ running = 0
    /\ m \in DOMAIN mgrs
    /\ mgrs' = [mgrs EXCEPT ![m].source_data = value]
    /\ tasks' = [u \in Tasks |-> Redoc(u, m)]
    /\ UNCHANGED <<connected, connected_message, config_store_state,
                   store, notify_handler, running>>

\* ConfigManager.notify(func): add a handler to the class-level set.
notify(func) ==
    /\ running = 0
    /\ func \notin notify_handler
    /\ notify_handler' = notify_handler \cup {func}
    /\ UNCHANGED <<connected, connected_message, config_store_state,
                   store, mgrs, running, tasks>>

\* init_config_store(): found = the config names the directory walk yields,
\* loaded = those whose manager was constructed before a read failed.
init_config_store(found, loaded) ==
    /\ running = 0
    /\ loaded \subseteq found
    /\ Len(mgrs) + Cardinality(loaded) <= MaxMgr
    /\ store' = [n \in found |-> BackendRead(store, n)]
    /\ mgrs' = mgrs \o
                 [i \in 1 .. Cardinality(loaded) |->
                    LET n == CHOOSE x \in loaded : Alloc(loaded, 0, x) = i
                    IN [config_name |-> n,
                        source_data |-> BackendRead(store, n)]]
    /\ config_store_state' = [n \in loaded |-> Alloc(loaded, Len(mgrs), n)]
    /\ connected' = [n \in (DOMAIN connected) \cup loaded |->
                       IF n \in DOMAIN connected THEN connected[n] ELSE {}]
    /\ tasks' = Mark(connected', connected_message)
    /\ UNCHANGED <<connected_message, notify_handler, running>>

\* The caller's `m.source_data = value; await m.update_config()`, up to the
\* backend write.
Update(t, m, value) ==
    /\ running = 0
    /\ tasks[t].pc = "idle"
    /\ m \in DOMAIN mgrs
    /\ mgrs' = [mgrs EXCEPT ![m].source_data = value]
    /\ tasks' = [u \in Tasks |->
                   IF u = t
                   THEN [IdleTask EXCEPT !.pc = "write", !.mgr = m,
                                         !.old = mgrs[m].source_data]
                   ELSE Redoc(u, m)]
    /\ running' = t
    /\ UNCHANGED <<connected, connected_message, config_store_state,
                   store, notify_handler>>

\* update_config is over for task t: what the caller sees is kept (how it
\* ended, the handlers that ran, what was sent); the pass's locals are gone.
Finish(t, pc, e) ==
    [tasks EXCEPT ![t] = [IdleTask EXCEPT !.pc = pc, !.err = e,
                                          !.mgr = tasks[t].mgr,
                                          !.old = tasks[t].old,
                                          !.calls = tasks[t].calls,
                                          !.sent = tasks[t].sent]]

Raise(t, e) == Finish(t, "failed", e)

\* variant: the document held before the caller's assignment is written
written_document_Stale(t) == tasks[t].old

\* line 87: the argument of write is self.source_data, read at the call
written_document(t) == mgrs[tasks[t].mgr].source_data

\* variant: the write is awaited, the event loop runs before the refresh
Write_Yields(t, ok) ==
    /\ running = t
    /\ tasks[t].pc = "write"
    /\ IF ok
       THEN /\ store' = BackendWrite(store, NameOf(t), written_document(t))
            /\ tasks' = [tasks EXCEPT ![t].pc = "refresh"]
       ELSE /\ tasks' = Raise(t, "write")
            /\ UNCHANGED store
    /\ running' = 0
    /\ UNCHANGED <<connected, connected_message, config_store_state,
                   mgrs, notify_handler>>
    /\ UNCHANGED <<used, last, heap>>

\* update_config: self.store_backend.write(self.source_data)
Write(t, ok) ==
    /\ running = t
    /\ tasks[t].pc = "write"
    /\ IF ok
       THEN /\ store' = BackendWrite(store, NameOf(t), written_document(t))
            /\ tasks' = [tasks EXCEPT ![t].pc = "refresh"]
            /\ UNCHANGED running
       ELSE /\ tasks' = Raise(t, "write")
            /\ running' = 0
            /\ UNCHANGED store
    /\ UNCHANGED <<connected, connected_message, config_store_state,
                   mgrs, notify_handler>>
    /\ UNCHANGED <<used, last, heap>>

\* refresh: self._source_data = self.store_backend.read()
refresh(m, ok) ==
    IF ok THEN [mgrs EXCEPT ![m].source_data =
                                BackendRead(store, mgrs[m].config_name)]
    ELSE mgrs

\* update_config: self.refresh(), then the handler loop starts
Refresh(t, ok) ==
    /\ running = t
    /\ tasks[t].pc = "refresh"
    /\ mgrs' = refresh(tasks[t].mgr, ok)
    /\ IF ok
       THEN /\ tasks' = [tasks EXCEPT ![t].pc = "notify",
                                      ![t].fp0 = to_hash(BackendRead(
                                                   store, NameOf(t))),
                                      ![t].hleft = notify_handler,
                                      ![t].hsize = Cardinality(notify_handler)]
            /\ UNCHANGED running
       ELSE /\ tasks' = Raise(t, "read")
            /\ running' = 0
    /\ UNCHANGED <<connected, connected_message, config_store_state,
                   store, notify_handler>>
    /\ UNCHANGED <<used, last, heap>>

\* A caller's m.refresh() outside an update.
Reload(m, ok) ==
    /\ running = 0
    /\ m \in DOMAIN mgrs
    /\ mgrs' = refresh(m, ok)
    /\ tasks' = [u \in Tasks |-> Redoc(u, m)]
    /\ UNCHANGED <<connected, connected_message, config_store_state,
                   store, notify_handler, running>>

\* The record of the latest update requested: the task that runs it and the
\* document it was given; flag: its manager was refreshed again since.
LogUpdate(t, m, value) ==
    last' = [op |-> "update", name |-> mgrs[m].config_name, conn |-> "-",
             outcome |-> "none", flag |-> FALSE, task |-> t, doc |-> value]

LogReload(m, ok) ==
    last' = IF last.op = "update" /\ ok /\ tasks[last.task].mgr = m
            THEN [last EXCEPT !.flag = TRUE]
            ELSE last

\* --------------------------------------------- update_config handler loop
\* `for handler in self._notify_handler` walks the live class-level set: the
\* set iterator raises when the set changed size since the walk started.
HandlersChanged(t) == Cardinality(notify_handler) # tasks[t].hsize

HandlerError(t) ==
    /\ running = t
    /\ tasks[t].pc = "notify"
    /\ HandlersChanged(t)
    /\ tasks' = Raise(t, "RuntimeError:handlers")
    /\ running' = 0
    /\ UNCHANGED <<connected, connected_message, config_store_state,
                   store, mgrs, notify_handler>>
    /\ UNCHANGED <<used, last, heap>>

\* the handler loop is exhausted: update_config returns
Return(t) ==
    /\ running = t
    /\ tasks[t].pc = "notify"
    /\ ~HandlersChanged(t)
    /\ tasks[t].hleft = {}
    /\ tasks' = Finish(t, "done", "none")
    /\ running' = 0
    /\ UNCHANGED <<connected, connected_message, config_store_state,
                   store, mgrs, notify_handler>>
    /\ UNCHANGED <<used, last, heap>>

\* await handler(self) for a handler other than the dispatcher
CallOther(t) ==
    /\ running = t
    /\ tasks[t].pc = "notify"
    /\ ~HandlersChanged(t)
    /\ "other" \in tasks[t].hleft
    /\ tasks' = [tasks EXCEPT ![t].hleft = @ \ {"other"},
                              ![t].calls = @ \cup {"other"}]
    /\ UNCHANGED <<connected, connected_message, config_store_state,
                   store, mgrs, notify_handler, running>>
    /\ UNCHANGED <<used, last, heap>>

\* ------------------------------------------------------ notify_changed
\* clients = connected.get(config_name) or []
Clients(cn, config_name) ==
    IF config_name \in DOMAIN cn THEN cn[config_name] ELSE {}

\* variant: a manager already recorded for the name is kept
replace_manager_KeepsPrior(css, config_name, m) ==
    IF config_name \in DOMAIN css THEN css ELSE Put(css, config_name, m)

\* line 160: config_store_state[config_store.config_name] = config_store
replace_manager(css, config_name, m) == Put(css, config_name, m)

\* notify_changed entry: record the manager, bind clients to the live set
notify_changed(t) ==
    /\ running = t
    /\ tasks[t].pc = "notify"
    /\ ~HandlersChanged(t)
    /\ "notify_changed" \in tasks[t].hleft
    /\ config_store_state' = replace_manager(config_store_state, NameOf(t),
                                             tasks[t].mgr)
    /\ LET clients == Clients(connected, NameOf(t))
       IN tasks' = [tasks EXCEPT ![t].pc = "iter",
                                 ![t].hleft = @ \ {"notify_changed"},
                                 ![t].calls = @ \cup {"notify_changed"},
                                 ![t].live = clients # {},
                                 ![t].isize = Cardinality(clients),
                                 ![t].snap = clients,
                                 ![t].todo = clients]
    /\ UNCHANGED <<connected, connected_message, store, mgrs,
                   notify_handler, running>>
    /\ UNCHANGED <<used, last, heap>>

\* The set iterator's size check at each step of `for client in clients`.
SizeChanged(t) ==
    /\ tasks[t].live
    /\ Cardinality(connected[NameOf(t)]) # tasks[t].isize

IterError(t) ==
    /\ running = t
    /\ tasks[t].pc = "iter"
    /\ SizeChanged(t)
    /\ tasks' = Raise(t, "RuntimeError:connected")
    /\ running' = 0
    /\ UNCHANGED <<connected, connected_message, config_store_state,
                   store, mgrs, notify_handler>>
    /\ UNCHANGED <<used, last, heap>>

\* What the iterator may yield next.  Over an unmutated set: the members not
\* yet yielded.  Over a set mutated back to its original size the walk
\* continues from a table position that no longer tells which members were
\* yielded: any current member, or the end.
Yield(t) ==
    IF tasks[t].dirty THEN connected[NameOf(t)] ELSE tasks[t].todo

IterEnd(t) ==
    /\ running = t
    /\ tasks[t].pc = "iter"
    /\ ~SizeChanged(t)
    /\ tasks[t].dirty \/ tasks[t].todo = {}
    /\ tasks' = [tasks EXCEPT ![t].pc = "notify"]
    /\ UNCHANGED <<connected, connected_message, config_store_state,
                   store, mgrs, notify_handler, running>>
    /\ UNCHANGED <<used, last, heap>>

\* variant: the stored message's config name is not compared
NameMatch_AnyName(cm, client, config_name) == client \in DOMAIN cm

\* line 164: message and message.config_name == config_store.config_name
NameMatch(cm, client, config_name) ==
    /\ client \in DOMAIN cm
    /\ cm[client].config_name = config_name

\* variant: send when the fingerprints differ
HashMatch_Inverted(m, message) == hash_code(m) # message.hash_code

\* line 166: config_store.hash_code == message.hash_code
HashMatch(m, message) == hash_code(m) = message.hash_code

\* the checks of one loop iteration: TRUE when the client is sent to
Qualifies(cm, m, client) ==
    /\ NameMatch(cm, client, mgrs[m].config_name)
    /\ HashMatch(m, cm[client])

\* one iteration of the loop body, up to `continue` or the send
Visit(t, client) ==
    /\ running = t
    /\ tasks[t].pc = "iter"
    /\ ~SizeChanged(t)
    /\ client \in Yield(t)
    /\ tasks[t].visits < MaxVisits
    /\ LET go == Qualifies(connected_message, tasks[t].mgr, client)
       IN /\ tasks' = [tasks EXCEPT
                ![t].todo = @ \ {client},
                ![t].evald = @ \cup {client},
                ![t].visits = @ + 1,
                ![t].evfp[client] = hash_code(tasks[t].mgr),
                ![t].sent[client] = IF go THEN @ + 1 ELSE @,
                ![t].cur = IF go THEN client ELSE "-",
                ![t].out = IF go THEN config_message(tasks[t].mgr, "request")
                                 ELSE NoPayload,
                ![t].pc = IF go THEN "send" ELSE "iter"]
          /\ running' = IF go THEN 0 ELSE t
    /\ UNCHANGED <<connected, connected_message, config_store_state,
                   store, mgrs, notify_handler>>
    /\ UNCHANGED <<used, last, heap>>

\* variant: after the delivery the connection's stored fingerprint is set to
\* the manager's
SendOk_UpdatesLastMessage(t) ==
    /\ running = 0
    /\ tasks[t].pc = "send"
    /\ tasks' = [tasks EXCEPT ![t].pc = "iter", ![t].cur = "-",
                              ![t].out = NoPayload]
    /\ running' = t
    /\ connected_message' =
          IF tasks[t].cur \in DOMAIN connected_message
          THEN [connected_message EXCEPT
                   ![tasks[t].cur].hash_code = hash_code(tasks[t].mgr)]
          ELSE connected_message
    /\ UNCHANGED <<connected, config_store_state,
                   store, mgrs, notify_handler>>
    /\ UNCHANGED <<used, last, heap>>

\* await client.send(...) completes
SendOk(t) ==
    /\ running = 0
    /\ tasks[t].pc = "send"
    /\ tasks' = [tasks EXCEPT ![t].pc = "iter", ![t].cur = "-",
                              ![t].out = NoPayload]
    /\ running' = t
    /\ UNCHANGED <<connected, connected_message, config_store_state,
                   store, mgrs, notify_handler>>
    /\ UNCHANGED <<used, last, heap>>

\* variant: the failure handler puts back the document held before
SendFail_RollsBack(t) ==
    /\ running = 0
    /\ tasks[t].pc = "send"
    /\ tasks' = Raise(t, "send")
    /\ mgrs' = [mgrs EXCEPT ![tasks[t].mgr].source_data = tasks[t].old]
    /\ UNCHANGED <<connected, connected_message, config_store_state,
                   store, notify_handler, running>>
    /\ UNCHANGED <<used, last, heap>>

\* await client.send(...) raises: nothing catches it up to the caller
SendFail(t) ==
    /\ running = 0
    /\ tasks[t].pc = "send"
    /\ tasks' = Raise(t, "send")
    /\ UNCHANGED <<connected, connected_message, config_store_state,
                   store, mgrs, notify_handler, running>>
    /\ UNCHANGED <<used, last, heap>>

\* ------------------------------------------------------------- Message
MaxMsgs == 2

\* request.headers of the requests that messages are built from
Headers == {"h1", "h2"}

\* heap.dicts holds the dict objects, a reference being an index.  Two are
\* created once, when the class body is evaluated: the default of data
\* (line 27) and the default of context (line 28).
DataDefault == 1

ContextDefault == 2

\* The fields of message object i with its dicts dereferenced.
View(h, i) ==
    [h.msgs[i] EXCEPT !.data = h.dicts[@], !.context = h.dicts[@]]

\* The message as the registry model holds it.
Stored(i) ==
    [config_name |-> heap.msgs[i].config_name,
     hash_code |-> heap.msgs[i].hash_code]

\* Message(request, message_type, config_name, hash_code[, data[, context]])
\* data, context: <<>> when the argument is not given, else <<the dict>>.
\* A field that is not given is bound to the default object of the class.
NewMessage(request, message_type, config_name, fp, data, context) ==
    /\ running = 0
    /\ Len(heap.msgs) < MaxMsgs
    /\ LET d1 == IF data = <<>> THEN heap.dicts
                 ELSE Append(heap.dicts, data[1])
           d2 == IF context = <<>> THEN d1 ELSE Append(d1, context[1])
       IN heap' = [dicts |-> d2,
                   msgs |-> Append(heap.msgs,
                      [request |-> request,
                       message_type |-> message_type,
                       config_name |-> config_name,
                       hash_code |-> fp,
                       data |-> IF data = <<>> THEN DataDefault ELSE Len(d1),
                       context |-> IF context = <<>> THEN ContextDefault
                                   ELSE Len(d2),
                       lut |-> "lut"])]
    /\ UNCHANGED <<connected, connected_message, config_store_state,
                   store, mgrs, notify_handler, running, tasks>>

\* Message.to_dict: context = self.context; context.update(headers=...)
to_dict(i) ==
    /\ running = 0
    /\ i \in DOMAIN heap.msgs
    /\ heap' = [heap EXCEPT !.dicts[heap.msgs[i].context] =
                                Put(@, "headers", heap.msgs[i].request.headers)]
    /\ UNCHANGED <<connected, connected_message, config_store_state,
                   store, mgrs, notify_handler, running, tasks>>

\* Message.to_string called on message object i
Serialize(i) ==
    /\ running = 0
    /\ i \in DOMAIN heap.msgs
    /\ UNCHANGED <<connected, connected_message, config_store_state,
                   store, mgrs, notify_handler, running, tasks, heap>>

\* The record of the latest serialization: the method and what it returned.
LogToDict(i) ==
    last' = [op |-> "to_dict", name |-> "-", conn |-> "-",
             outcome |-> "none", flag |-> FALSE, msg |-> i,
             result |-> [message_type |-> heap.msgs[i].message_type,
                         config_name |-> heap.msgs[i].config_name,
                         hash_code |-> heap.msgs[i].hash_code,
                         data |-> View(heap', i).data,
                         context |-> View(heap', i).context,
                         lut |-> heap.msgs[i].lut]]

LogSerialize(i) ==
    last' = [op |-> "to_string", name |-> "-", conn |-> "-",
             outcome |-> "none", flag |-> FALSE, msg |-> i,
             result |-> to_string(View(heap, i))]

\* ------------------------------------------------------ specifications
\* Steps of an update in flight that every specification with updates shares.
TaskStep ==
    \/ \E t \in Tasks, ok \in BOOLEAN : Write(t, ok)
    \/ \E t \in Tasks, ok \in BOOLEAN : Refresh(t, ok)
    \/ \E t \in Tasks : Return(t)
    \/ \E t \in Tasks : notify_changed(t)
    \/ \E t \in Tasks : IterEnd(t)
    \/ \E t \in Tasks, c \in Conns : Visit(t, c)
    \/ \E t \in Tasks : SendOk(t)
    \/ \E t \in Tasks : SendFail(t)

\* Dispatch: two updates in flight interleaved with registry calls.  The two
\* tasks are interchangeable: task 2 starts only after task 1 has; so are
\* the connections: the first registry call is about ws1.
Next ==
    \/ \E message \in Messages, ws \in Conns :
          /\ ws = "ws1" \/ used.reg > 0
          /\ used.reg < MaxChurn /\ Budget("reg")
          /\ Register(message, ws) /\ UNCHANGED <<last, heap>>
    \/ \E n \in Names, ws \in Conns :
          /\ ws = "ws1" \/ used.reg > 0
          /\ used.reg < MaxChurn /\ Budget("reg")
          /\ Remove(n, ws) /\ UNCHANGED <<last, heap>>
    \/ \E t \in Tasks, m \in Mgrs, d \in Docs :
          /\ t = 1 \/ tasks[1].pc # "idle"
          /\ Update(t, m, d) /\ UNCHANGED <<used, last, heap>>
    \/ \E t \in Tasks : IterError(t)
    \/ TaskStep

Spec == Init /\ [][Next]_vars

\* One update interleaved with a longer sequence of registry calls.
NextPass ==
    \/ \E message \in Messages, ws \in Conns :
          /\ ws = "ws1" \/ used.reg > 0
          /\ Budget("reg") /\ Register(message, ws) /\ UNCHANGED <<last, heap>>
    \/ \E n \in Names, ws \in Conns :
          /\ ws = "ws1" \/ used.reg > 0
          /\ Budget("reg") /\ Remove(n, ws) /\ UNCHANGED <<last, heap>>
    \/ \E m \in Mgrs, d \in Docs :
          Update(1, m, d) /\ UNCHANGED <<used, last, heap>>
    \/ \E t \in Tasks : IterError(t)
    \/ TaskStep

SpecPass == Init /\ [][NextPass]_vars

\* The registry alone: any sequence of registry calls and re-inits.
NextRegistry ==
    \/ \E message \in Messages, ws \in Conns :
          Register(message, ws) /\ LogRegister(message, ws) /\ UNCHANGED <<used, heap>>
    \/ \E n \in Names, ws \in Conns :
          Remove(n, ws) /\ LogRemove(n, ws) /\ UNCHANGED <<used, heap>>
    \/ \E n \in Names : Lookup(n) /\ LogLookup(n) /\ UNCHANGED <<used, heap>>
    \/ \E found \in SUBSET Names, loaded \in SUBSET Names :
          /\ Budget("init") /\ init_config_store(found, loaded)
          /\ LogInit(found, loaded) /\ UNCHANGED heap

SpecRegistry == Init /\ [][NextRegistry]_vars

\* Managers: construction and updates, also of managers whose name the
\* import-time scan did not discover, with a bounded number of subscriptions
\* so that a pass can be suspended.
NextUpdate ==
    \/ \E message \in Messages, ws \in Conns :
          /\ ws = "ws1" \/ used.reg > 0
          /\ used.reg < MaxSubscribes /\ Budget("reg")
          /\ Register(message, ws) /\ UNCHANGED <<last, heap>>
    \/ \E n \in Names : NewManager(n) /\ UNCHANGED <<used, last, heap>>
    \/ \E t \in Tasks, m \in Mgrs, d \in Docs :
          /\ t = 1 \/ tasks[1].pc # "idle"
          /\ Update(t, m, d) /\ UNCHANGED <<used, last, heap>>
    \/ TaskStep

SpecUpdate == Init /\ [][NextUpdate]_vars

\* Handlers: registration of a second handler and the document setter,
\* interleaved with updates.
NextHandlers ==
    \/ \E message \in Messages, ws \in Conns :
          /\ ws = "ws1" \/ used.reg > 0
          /\ used.reg < MaxSubscribes /\ Budget("reg")
          /\ Register(message, ws) /\ UNCHANGED <<last, heap>>
    \/ \E m \in Mgrs, d \in Docs :
          Budget("set") /\ source_data_setter(m, d) /\ UNCHANGED <<last, heap>>
    \/ \E h \in Handlers : notify(h) /\ UNCHANGED <<used, last, heap>>
    \/ \E t \in Tasks, m \in Mgrs, d \in Docs :
          /\ t = 1 \/ tasks[1].pc # "idle"
          /\ Update(t, m, d) /\ UNCHANGED <<used, last, heap>>
    \/ \E t \in Tasks : HandlerError(t)
    \/ \E t \in Tasks : CallOther(t)
    \/ TaskStep

SpecHandlers == Init /\ [][NextHandlers]_vars

\* Round trip: updates and refreshes of the managers found at import, the
\* latest update requested kept on record.
NextRoundTrip ==
    \/ \E message \in Messages, ws \in Conns :
          /\ ws = "ws1" \/ used.reg > 0
          /\ used.reg < MaxSubscribes /\ Budget("reg")
          /\ Register(message, ws) /\ UNCHANGED <<last, heap>>
    \/ \E t \in Tasks, m \in Mgrs, d \in Docs :
          /\ t = 1 \/ tasks[1].pc # "idle"
          /\ Update(t, m, d) /\ LogUpdate(t, m, d) /\ UNCHANGED <<used, heap>>
    \/ \E m \in Mgrs, ok \in BOOLEAN :
          Reload(m, ok) /\ LogReload(m, ok) /\ UNCHANGED <<used, heap>>
    \/ TaskStep

SpecRoundTrip == Init /\ [][NextRoundTrip]_vars

\* Message objects: construction with and without explicit data and context,
\* the two serializations, and registration of a constructed message.
NextMessages ==
    \/ \E h \in Headers, n \in Names, fp \in Hashes,
          data \in {<<>>, <<[a |-> 1]>>},
          context \in {<<>>, <<[user |-> "u"]>>} :
          /\ NewMessage([headers |-> h], MT_NO_CHANGE, n, fp, data, context)
          /\ UNCHANGED <<used, last>>
    \/ \E i \in 1 .. MaxMsgs :
          to_dict(i) /\ LogToDict(i) /\ UNCHANGED used
    \/ \E i \in 1 .. MaxMsgs :
          Serialize(i) /\ LogSerialize(i) /\ UNCHANGED used
    \/ \E i \in 1 .. MaxMsgs, ws \in Conns :
          /\ i \in DOMAIN heap.msgs
          /\ used.reg < MaxSubscribes /\ Budget("reg")
          /\ Register(Stored(i), ws) /\ UNCHANGED <<last, heap>>

SpecMessages == Init /\ [][NextMessages]_vars

\* ================================================================ claims

\* C1: every connection that has a last_message entry is a member of the
\* subscribers set of the config name recorded in its stored message and of
\* no other config's subscribers set.
C1_ExactlyOneSet ==
    \A c \in DOMAIN connected_message :
        LET n == connected_message[c].config_name
        IN /\ n \in DOMAIN connected
           /\ c \in connected[n]
           /\ \A k \in (DOMAIN connected) \ {n} : c \notin connected[k]

\* C2: a connection is a member of some config's subscribers set if and only
\* if it has a last_message entry.
C2_MapsPaired ==
    \A c \in Conns :
        (\E n \in DOMAIN connected : c \in connected[n])
            <=> c \in DOMAIN connected_message

\* A step of the dispatch pass of task t.
PassStep(t) ==
    /\ tasks[t].pc \in {"iter", "send"}
    /\ \/ tasks'[t].pc # tasks[t].pc
       \/ tasks'[t].visits # tasks[t].visits

\* C3: a pass sends to a connection only if, at the moment of the send, the
\* connection's stored last_message exists and names the updating manager's
\* config; a connection whose stored message names another config is sent
\* nothing, and no step of a pass changes subscribers or last_message.
C3_SendOnlyToOwnConfig ==
    [][\A t \in Tasks :
         /\ \A c \in Conns :
              tasks'[t].sent[c] > tasks[t].sent[c] =>
                  /\ c \in DOMAIN connected_message
                  /\ connected_message[c].config_name = NameOf(t)
         /\ PassStep(t) => UNCHANGED <<connected, connected_message>>]_vars

C3_Witness ==
    \E t \in Tasks, c \in Conns, c2 \in Conns :
        /\ tasks[t].sent[c] > 0
        /\ c2 \in tasks[t].evald
        /\ tasks[t].sent[c2] = 0
        /\ ~tasks[t].touched
        /\ c2 \in DOMAIN connected_message
        /\ connected_message[c2].config_name # NameOf(t)
        /\ c2 \in connected[NameOf(t)]

\* The pass of task t ran to its end without a failure and neither registry
\* map has changed since it started.
CleanPassOver(t) ==
    /\ tasks[t].pc = "notify"
    /\ "notify_changed" \in tasks[t].calls
    /\ ~tasks[t].touched

C5_SnapshotIteration ==
    \A t \in Tasks :
        /\ tasks[t].err # "RuntimeError:connected"
        /\ tasks[t].evald \subseteq tasks[t].snap
        /\ (tasks[t].pc = "notify" /\ "notify_changed" \in tasks[t].calls)
             => tasks[t].evald = tasks[t].snap

\* C6: register fails with config-not-found exactly when lookup of the
\* message's config name fails with config-not-found.
C6_RegisterFailsIffLookupFails ==
    \A message \in Messages, ws \in Conns :
        register_connected_ws(connected, connected_message,
                              message, ws).raised = "ProjectNoFoundException"
            <=> get_config_store(config_store_state,
                                 message.config_name).raised
                    = "ProjectNoFoundException"

\* C7: register with a config name that has no subscribers set fails with
\* config-not-found and leaves both maps unchanged; otherwise it succeeds,
\* the connection is in the set of that name and its last_message is the
\* message; registering a connection that is already a member leaves every
\* set unchanged and only overwrites that connection's last_message.
C7_RegisterContract ==
    [][\A message \in Messages, ws \in Conns :
         (Register(message, ws) /\ LogRegister(message, ws)) =>
            IF message.config_name \notin DOMAIN connected
            THEN /\ last'.outcome = "ProjectNoFoundException"
                 /\ UNCHANGED <<connected, connected_message>>
            ELSE /\ last'.outcome = "none"
                 /\ DOMAIN connected' = DOMAIN connected
                 /\ connected'[message.config_name] =
                        connected[message.config_name] \cup {ws}
                 /\ \A n \in (DOMAIN connected) \ {message.config_name} :
                        connected'[n] = connected[n]
                 /\ ws \in connected[message.config_name]
                        => connected' = connected
                 /\ DOMAIN connected_message' =
                        (DOMAIN connected_message) \cup {ws}
                 /\ connected_message'[ws] = message
                 /\ \A c \in (DOMAIN connected_message) \ {ws} :
                        connected_message'[c] = connected_message[c]]_vars

C7_Witness ==
    /\ last.op = "register"
    /\ last.outcome = "none"
    /\ last.flag
    /\ last.conn \in connected[last.name]
    /\ connected_message[last.conn].config_name = last.name

\* C8: remove never raises, for any config name and any connection, and
\* calling it twice in a row leaves the registry as calling it once does.
C8_RemoveNeverRaisesIdempotent ==
    /\ last.op = "remove" => last.outcome = "none"
    /\ \A n \in Names, ws \in Conns :
         LET r1 == remove_connected_ws(connected, connected_message, n, ws)
             r2 == remove_connected_ws(r1.connected, r1.connected_message,
                                       n, ws)
         IN /\ r1.raised = "none"
            /\ r2.raised = "none"
            /\ r2.connected = r1.connected
            /\ r2.connected_message = r1.connected_message

C8_Witness ==
    /\ last.op = "remove"
    /\ last.outcome = "none"
    /\ last.name \notin DOMAIN connected
    /\ last.conn \notin DOMAIN connected_message

\* C9: a successful register(msg, conn) followed immediately by
\* remove(msg.config_name, conn) leaves conn absent from the set of that
\* name and from last_message, and leaves every other connection's
\* membership and last_message as they were.
C9_RegisterThenRemove ==
    /\ (last.op = "remove" /\ last.flag) =>
           /\ last.conn \notin connected[last.name]
           /\ last.conn \notin DOMAIN connected_message
    /\ \A message \in Messages, ws \in Conns :
         LET r1 == register_connected_ws(connected, connected_message,
                                         message, ws)
             r2 == remove_connected_ws(r1.connected, r1.connected_message,
                                       message.config_name, ws)
         IN r1.raised = "none" =>
              /\ r2.raised = "none"
              /\ DOMAIN r2.connected = DOMAIN connected
              /\ ws \notin r2.connected[message.config_name]
              /\ ws \notin DOMAIN r2.connected_message
              /\ \A c \in Conns \ {ws} :
                   /\ \A n \in DOMAIN connected :
                        c \in r2.connected[n] <=> c \in connected[n]
                   /\ c \in DOMAIN r2.connected_message
                        <=> c \in DOMAIN connected_message
                   /\ c \in DOMAIN connected_message =>
                        r2.connected_message[c] = connected_message[c]

C9_Witness ==
    /\ last.op = "remove"
    /\ last.flag
    /\ last.conn \notin connected[last.name]
    /\ \E c \in Conns \ {last.conn} : c \in DOMAIN connected_message

\* C10: when the backend write of an update fails, or the backend read of
\* the refresh that follows it, no notification handler has been invoked,
\* nothing has been sent, and the manager's in-memory document (and so its
\* fingerprint) is the one it held before the update was requested.
C10_FailedUpdateCommitsNothing ==
    \A t \in Tasks :
        (tasks[t].pc = "failed" /\ tasks[t].err \in {"write", "read"}) =>
            /\ tasks[t].calls = {}
            /\ \A c \in Conns : tasks[t].sent[c] = 0
            /\ mgrs[tasks[t].mgr].source_data = tasks[t].old
            /\ hash_code(tasks[t].mgr) = to_hash(tasks[t].old)

\* C11: with a backend whose calls succeed, once the write and the refresh
\* of update(D) are over, and until another update is requested, the
\* manager's document is D, its fingerprint is hash(D), the persisted
\* document is D and a further refresh() leaves the document D; from the
\* document {} the update to {"a": 1} changes the fingerprint.
C11_UpdateRoundTrip ==
    last.op = "update" =>
        LET t == last.task
            m == tasks[t].mgr
        IN (/\ tasks[t].pc \notin {"write", "refresh"}
            /\ tasks[t].err \notin {"write", "read"}) =>
               /\ mgrs[m].source_data = last.doc
               /\ hash_code(m) = to_hash(last.doc)
               /\ mgrs[m].config_name \in DOMAIN store
               /\ store[mgrs[m].config_name] = last.doc
               /\ refresh(m, TRUE)[m].source_data = last.doc
               /\ (tasks[t].old = EmptyDoc /\ last.doc = 1) =>
                      hash_code(m) # to_hash(tasks[t].old)

C11_Witness ==
    /\ last.op = "update"
    /\ last.flag
    /\ tasks[last.task].pc = "done"
    /\ tasks[last.task].old = EmptyDoc
    /\ last.doc = 1
    /\ mgrs[tasks[last.task].mgr].source_data = 1
    /\ \E u \in Tasks \ {last.task} : tasks[u].pc = "send"

\* The update of task t ends in this step, its write and refresh done.
UpdateEnds(t) ==
    /\ tasks[t].pc \notin {"idle", "write", "refresh", "done", "failed"}
    /\ tasks'[t].pc \in {"done", "failed"}

\* C12: every update runs backend write, then refresh, then the callbacks;
\* no callback runs before the refresh of its update is over, and when the
\* update ends every registered callback has been invoked exactly once, with
\* the updating manager.
C12_WriteRefreshThenEveryCallbackOnce ==
    [][\A t \in Tasks :
         /\ tasks'[t].pc = "refresh" => tasks[t].pc \in {"write", "refresh"}
         /\ (tasks'[t].pc = "notify" /\ tasks[t].pc # "notify") =>
                tasks[t].pc \in {"refresh", "iter"}
         /\ tasks'[t].calls # tasks[t].calls =>
                /\ tasks[t].pc = "notify"
                /\ \E h \in Handlers \ tasks[t].calls :
                       tasks'[t].calls = tasks[t].calls \cup {h}
         /\ (tasks[t].pc = "notify" /\ tasks'[t].pc = "iter") =>
                config_store_state'[NameOf(t)] = tasks[t].mgr
         /\ UpdateEnds(t) => tasks'[t].calls = notify_handler]_vars

\* C13: immediately after init the manager table holds exactly one manager
\* per discovered config name and nothing else, every discovered name has a
\* subscribers set, and no subscribers membership and no last_message entry
\* from before init remains.
C13_InitResetsEverything ==
    (last.op = "init" /\ last.outcome = "none") =>
        /\ DOMAIN config_store_state = DOMAIN store
        /\ \A n \in DOMAIN config_store_state :
               mgrs[config_store_state[n]].config_name = n
        /\ DOMAIN store \subseteq DOMAIN connected
        /\ \A n \in DOMAIN connected : connected[n] = {}
        /\ connected_message = EmptyDict

\* The send that task t is suspended at fails in this step.
FailedSend(t) == tasks[t].pc = "send" /\ tasks'[t].pc = "failed"

\* C14: a failing send ends the pass and the update with that failure: the
\* step changes neither the persisted documents, nor the managers'
\* documents, nor the manager table, nor subscribers, nor last_message, and
\* the failed update sends nothing afterwards.
C14_SendFailureAbortsPass ==
    [][\A t \in Tasks :
         /\ FailedSend(t) =>
                /\ tasks'[t].err = "send"
                /\ tasks'[t].sent = tasks[t].sent
                /\ UNCHANGED <<store, mgrs, config_store_state,
                               connected, connected_message>>
         /\ tasks[t].pc = "failed" => tasks'[t] = tasks[t]]_vars

C14_Witness ==
    \E t \in Tasks, c \in Conns, c2 \in Conns :
        /\ tasks[t].pc = "failed"
        /\ tasks[t].err = "send"
        /\ tasks[t].sent[c] = 1
        /\ tasks[t].sent[c2] = 0
        /\ c2 \in Clients(connected, NameOf(t))
        /\ Qualifies(connected_message, tasks[t].mgr, c2)
        /\ config_store_state[NameOf(t)] = tasks[t].mgr
        /\ store[NameOf(t)] = mgrs[tasks[t].mgr].source_data
        /\ mgrs[tasks[t].mgr].source_data # tasks[t].old
        /\ used.reg = 2

\* The dispatcher is entered for the update of task t in this step.
DispatchStarts(t) == tasks[t].pc = "notify" /\ tasks'[t].pc = "iter"

\* C15: the dispatcher records the updating manager M under M.name when it
\* is entered, before any subscriber is visited, replacing a prior manager;
\* the entry of a name changes at no other step of an update, so lookup
\* returns M through the sends and after a send failure until the dispatcher
\* is entered for another manager of that name; lookup of a name that is not
\* recorded fails with config-not-found.
C15_DispatcherRecordsManagerFirst ==
    [][\A n \in Names :
         /\ \A t \in Tasks :
               (DispatchStarts(t) /\ NameOf(t) = n) =>
                  /\ tasks[t].visits = 0
                  /\ tasks'[t].visits = 0
                  /\ \A c \in Conns : tasks'[t].sent[c] = 0
                  /\ get_config_store(config_store_state', n) =
                         [value |-> tasks[t].mgr, raised |-> "none"]
         /\ (\A t \in Tasks : ~(DispatchStarts(t) /\ NameOf(t) = n)) =>
               get_config_store(config_store_state', n) =
                   get_config_store(config_store_state, n)
         /\ n \notin DOMAIN config_store_state =>
               get_config_store(config_store_state, n).raised =
                   "ProjectNoFoundException"]_vars

C15_Witness ==
    \E t \in Tasks, i \in DOMAIN mgrs :
        /\ tasks[t].pc = "failed"
        /\ tasks[t].err = "send"
        /\ i # tasks[t].mgr
        /\ mgrs[i].config_name = NameOf(t)
        /\ get_config_store(config_store_state, NameOf(t)).value = tasks[t].mgr
        /\ \E n \in Names : n \notin DOMAIN config_store_state

\* A step of the update of task t from the entry of the dispatcher on.
DispatcherStep(t) ==
    /\ tasks[t].pc \in {"notify", "iter", "send"}
    /\ \/ tasks'[t].pc # tasks[t].pc
       \/ tasks'[t].visits # tasks[t].visits
       \/ tasks'[t].sent # tasks[t].sent
       \/ tasks'[t].calls # tasks[t].calls

\* C16: no step of a dispatch pass (entry, skip, send, delivery, failure)
\* changes subscribers or last_message, so a stored last_message is not
\* updated by a delivery; the two maps change only in a register or remove
\* call, which is no step of any pass.
C16_DispatchNeverWritesRegistry ==
    [][/\ \A t \in Tasks :
            DispatcherStep(t) => UNCHANGED <<connected, connected_message>>
       /\ (connected' # connected \/ connected_message' # connected_message)
            => /\ used'.reg = used.reg + 1
               /\ running = 0 /\ running' = 0
               /\ \A t \in Tasks :
                     /\ tasks'[t].pc = tasks[t].pc
                     /\ tasks'[t].sent = tasks[t].sent]_vars

C16_Witness ==
    \E t \in Tasks, c \in Conns :
        /\ tasks[t].pc = "done"
        /\ tasks[t].sent[c] = 1
        /\ used.reg = 1
        /\ c \in DOMAIN connected_message
        /\ connected_message[c].hash_code # hash_code(tasks[t].mgr)

\* C17: the payload of every send of a pass for manager M has message type
\* 'changed', M's config name, and the document and fingerprint M holds at
\* the moment of the send, the fingerprint being the hash of the carried
\* document; the payload does not change while the send is pending, also
\* when M's document is replaced meanwhile.
C17_PayloadIsCurrentState ==
    [][\A t \in Tasks :
         /\ (\E c \in Conns : tasks'[t].sent[c] > tasks[t].sent[c]) =>
               /\ tasks'[t].pc = "send"
               /\ tasks'[t].out =
                     [message_type |-> "changed",
                      config_name |-> NameOf(t),
                      hash_code |-> to_hash(mgrs[tasks[t].mgr].source_data),
                      data |-> mgrs[tasks[t].mgr].source_data]
               /\ mgrs' = mgrs
         /\ tasks[t].pc = "send" =>
               /\ tasks[t].out.message_type = "changed"
               /\ tasks[t].out.hash_code = to_hash(tasks[t].out.data)
               /\ tasks'[t].pc = "send" => tasks'[t].out = tasks[t].out]_vars

C17_Witness ==
    \E t \in Tasks, c \in Conns :
        /\ tasks[t].pc = "send"
        /\ tasks[t].cur # c
        /\ tasks[t].sent[c] = 1
        /\ tasks[t].out.hash_code # tasks[t].fp0
        /\ tasks[t].out.data = mgrs[tasks[t].mgr].source_data

\* C19: a Message is never changed after construction: no step (either
\* serialization, being stored by register) changes a field of any message
\* object, data and context included, whichever message the step is applied
\* to; so messages built without explicit data/context share no state.
C19_MessageNeverChanges ==
    [][\A i \in DOMAIN heap.msgs : View(heap', i) = View(heap, i)]_vars

\* C20: when no backend call has failed and the dispatcher is the only
\* callback, at every suspension point the manager recorded in the manager
\* table for a name holds the document persisted for that name; no update
\* is between its write, its refresh and the recording of its manager when
\* the event loop runs.
C20_RecordedManagerHoldsPersisted ==
    running = 0 =>
        /\ \A t \in Tasks : tasks[t].pc \in {"idle", "send", "done", "failed"}
        /\ (\A t \in Tasks : tasks[t].err \notin {"write", "read"}) =>
               \A n \in DOMAIN config_store_state :
                   mgrs[config_store_state[n]].source_data =
                       BackendRead(store, n)

C20_Witness ==
    \E t \in Tasks, u \in Tasks :
        /\ running = 0
        /\ tasks[t].pc = "send"
        /\ tasks[u].pc = "done"
        /\ NameOf(t) = NameOf(u)
        /\ tasks[t].mgr # tasks[u].mgr
        /\ config_store_state[NameOf(u)] = tasks[u].mgr
        /\ mgrs[tasks[u].mgr].source_data = store[NameOf(u)]
        /\ mgrs[tasks[t].mgr].source_data # store[NameOf(t)]

====
